---- MODULE Spec2Model ----
(***************************************************************************)
(* ALStream (src/src/audio/alstream.cpp): the streaming audio driver of    *)
(* mkxp-z.  A control thread calls open/close/play/pause/stop/query*, one  *)
(* producer thread per play sweep runs streamData(), and the OpenAL source *)
(* (the sink) drains the queued buffers on its own.  Every access to       *)
(* memory shared between the threads is one step of the model.             *)
(***************************************************************************)
EXTENDS Integers, Sequences, FiniteSets, TLC

\* ---------------------------------------------------------------- sizes
\* number of buffers in the ring (alBuf[STREAM_BUFS])
STREAM_BUFS == 3

\* length of a decoded file, counted in buffer-sized chunks
SrcLen == 4
\* largest offset (seconds, one chunk = one second) handed to play()
MaxOffset == 1
\* frames per second reported by source->sampleRate()
SampleRate == 2
\* format of every filled buffer: getBits, getChannels, getSize
BufBits == 16
BufChan == 1
BufSize == 4
\* a decoder that has produced this many frames in one sweep fails
MaxProcFrames == 8

Buffers == 1..STREAM_BUFS
NullBuf == 0
Offsets == 0..MaxOffset

States == {"Closed", "Stopped", "Playing", "Paused"}
ALStates == {"INITIAL", "PLAYING", "PAUSED", "STOPPED"}
Statuses == {"NoError", "EndOfStream", "WrapAround", "Error"}
OpenKinds == {"open_ok", "open_nosrc", "open_err", "open_nofile"}

VARIABLES
    \* ---- ALStream members
    looped,          \* bool looped
    state,           \* State state
    source,          \* ALDataSource *source: "null", "valid", "dangling"
    thread,          \* SDL_Thread *thread (TRUE: handle present)
    preemptPause,    \* bool preemptPause (under pauseMut)
    threadTermReq,   \* AtomicFlag
    streamInited,    \* AtomicFlag
    sourceExhausted, \* AtomicFlag
    needsRewind,     \* AtomicFlag
    startOffset,     \* double startOffset
    procFrames,      \* uint64_t procFrames
    lastBuf,         \* AL::Buffer::ID lastBuf
    \* ---- the OpenAL source alSrc
    sinkState,       \* AL_SOURCE_STATE
    sinkQueue,       \* queued buffers, head first
    sinkProc,        \* buffers of the queue already played
    \* ---- the data source
    srcPos,          \* decode cursor, in chunks
    loopStart,       \* loop point, in chunks
    \* ---- the control thread
    cpc,             \* position of the control thread
    cop,             \* the public operation it is in
    carg,            \* offset argument of play()
    qproc,           \* procFrames as read by queryOffset()
    \* ---- the producer thread (streamData)
    ppc,             \* position of the producer
    pi,              \* loop index i of the initial fill
    pstatus,         \* ALDataSource::Status status
    pbuf,            \* AL::Buffer::ID buf
    procBufs,        \* ALint procBufs
    \* ---- bookkeeping for the properties
    bufWrap,         \* buffer -> its last fill of this sweep returned WrapAround
    qret,            \* last value returned by queryOffset() (-1: none)
    wrapReset,       \* procFrames was reset to loopStartFrames in this sweep
    pausedEarly,     \* the pause in force came before the sweep's resumeStream()
    termFills,       \* fillBuffer calls of this sweep made with threadTermReq set
    sweepStage,      \* this sweep's producer: 0 nothing queued, 1 first buffer
                     \* queued, 2 its resumeStream() done
    producers        \* producer threads created and not yet joined

vars == <<looped, state, source, thread, preemptPause, threadTermReq,
          streamInited, sourceExhausted, needsRewind, startOffset, procFrames,
          lastBuf, sinkState, sinkQueue, sinkProc, srcPos,
          loopStart, cpc, cop, carg, qproc, ppc, pi, pstatus, pbuf, procBufs,
          bufWrap, qret, wrapReset, pausedEarly, producers, termFills,
          sweepStage>>

memberVars  == <<looped, state, source, thread, preemptPause, needsRewind,
                 startOffset>>
flagVars    == <<threadTermReq, streamInited, sourceExhausted>>
sinkVars    == <<sinkState, sinkQueue, sinkProc>>
srcVars     == <<srcPos, loopStart>>
ctlVars     == <<cpc, cop, carg, qproc>>
prodVars    == <<ppc, pi, pstatus, pbuf, procBufs>>

\* ------------------------------------------------------- the OpenAL source
\* AL::Source::play: a paused source resumes, any other restarts at the head
\* of its queue; with nothing queued it ends at once
ALPlayState(q) == IF Len(q) = 0 THEN "STOPPED" ELSE "PLAYING"
ALPlayProc(st, q, proc) == IF st = "PAUSED" /\ Len(q) > 0 THEN proc ELSE 0

\* AL::Source::pause: only a playing source pauses
ALPauseState(st) == IF st = "PLAYING" THEN "PAUSED" ELSE st

\* AL::Source::stop: an INITIAL source stays INITIAL
ALStopState(st) == IF st = "INITIAL" THEN "INITIAL" ELSE "STOPPED"

\* AL::Source::clearQueue: legal on a source that is not playing or paused
ALClearQueue(st, q) == IF st \in {"INITIAL", "STOPPED"} THEN <<>> ELSE q

\* AL::Source::getProcBufferCount: a stopped source reports its whole queue
ALProcCount(st, q, proc) ==
    IF st = "STOPPED" THEN Len(q)
    ELSE IF st = "INITIAL" THEN 0 ELSE proc

\* frames held by a filled buffer, as streamData() computes them
BufFrameCount(bits, size, chan) ==
    IF bits # 0 /\ chan # 0 THEN (size \div (bits \div 8)) \div chan ELSE 0

BufFrames == BufFrameCount(BufBits, BufSize, BufChan)

\* AL::Source::getSecOffset, in frames: position inside the queue
ALSecOffsetFrames(st, proc) ==
    IF st \in {"PLAYING", "PAUSED"} THEN proc * BufFrames ELSE 0

\* --------------------------------------------------------- the data source
\* source->loopStartFrames()
LoopStartFrames(ls) == ls * BufFrames

\* source->fillBuffer: the statuses the decoder can return at cursor pos
FillStatuses(lp, pos, frames) ==
    IF frames >= MaxProcFrames THEN {"Error"}
    ELSE {"Error"} \cup
         (IF pos + 1 >= SrcLen
          THEN (IF lp THEN {"WrapAround"} ELSE {"EndOfStream"})
          ELSE {"NoError"})

\* the cursor after a fill
FillPos(pos, ls, st) ==
    IF st = "WrapAround" THEN ls
    ELSE IF st = "Error" THEN pos
    ELSE IF pos < SrcLen THEN pos + 1 ELSE pos

\* ------------------------------------------------------------------- Init
\* the constructor: its initialiser list leaves procFrames unset, so the
\* counter starts with whatever the memory held
Init ==
    /\ looped \in BOOLEAN
    /\ state = "Closed"
    /\ source = "null"
    /\ thread = FALSE
    /\ preemptPause = FALSE
    /\ threadTermReq = FALSE
    /\ streamInited = FALSE
    /\ sourceExhausted = FALSE
    /\ needsRewind = FALSE
    /\ startOffset = 0
    /\ procFrames \in {0, 1}
    /\ lastBuf = NullBuf
    /\ sinkState = "INITIAL"
    /\ sinkQueue = <<>>
    /\ sinkProc = 0
    /\ srcPos = 0
    /\ loopStart = 0
    /\ cpc = "idle"
    /\ cop = "none"
    /\ carg = 0
    /\ qproc = 0
    /\ ppc = "none"
    /\ pi = 0
    /\ pstatus = "NoError"
    /\ pbuf = NullBuf
    /\ procBufs = 0
    /\ bufWrap = [b \in Buffers |-> FALSE]
    /\ qret = -1
    /\ wrapReset = FALSE
    /\ pausedEarly = FALSE
    /\ termFills = 0
    /\ sweepStage = 0
    /\ producers = 0

\* ------------------------------------------------------- the control thread
\* closeSource(): delete source; the pointer itself is left as it was
closeSource(src) == IF src = "valid" THEN "dangling" ELSE src

\* checkStopped() with its sourceExhausted test inverted
checkStopped_exhaustedInverted ==
    /\ state = "Playing"
    /\ streamInited
    /\ ~sourceExhausted
    /\ sinkState # "PLAYING"

\* checkStopped() without its test of sourceExhausted
checkStopped_noExhaustedTest ==
    /\ state = "Playing"
    /\ streamInited
    /\ sinkState # "PLAYING"

\* checkStopped(): TRUE when it goes on to stopStream() and state = Stopped
checkStopped ==
    /\ state = "Playing"
    /\ streamInited
    /\ sourceExhausted
    /\ sinkState # "PLAYING"

\* state once close()/stop()/open() has finished, from Stopped or Closed
EndState(op, st) ==
    CASE op = "close"      -> "Closed"
      [] op = "open_err"   -> "Closed"
      [] op = "open_ok"    -> "Stopped"
      [] op = "open_nosrc" -> "Stopped"
      [] OTHER             -> st

\* openSource() that installs handler.source only when there is one
EndSource_keepOld(op, st, src) ==
    CASE op \in {"close", "open_err", "open_nosrc"} ->
             (IF st = "Stopped" THEN closeSource(src) ELSE src)
      [] op = "open_ok"    -> "valid"
      [] OTHER             -> src

\* source once close()/stop()/open() has finished, from Stopped or Closed
EndSource(op, st, src) ==
    CASE op \in {"close", "open_err"} ->
             (IF st = "Stopped" THEN closeSource(src) ELSE src)
      [] op = "open_ok"    -> "valid"
      [] op = "open_nosrc" -> "null"
      [] OTHER             -> src

\* stopStream() that stops the sink before it joins the producer
StopStreamBegin_stopsFirst(op, arg) ==
    /\ threadTermReq' = TRUE
    /\ sinkState' = ALStopState(sinkState)
    /\ sinkProc' = 0
    /\ cpc' = "join"
    /\ cop' = op
    /\ carg' = arg
    /\ qret' = -1
    /\ UNCHANGED <<memberVars, streamInited, sourceExhausted, procFrames,
                   lastBuf, sinkQueue, srcVars, qproc, prodVars, bufWrap,
                   wrapReset, pausedEarly, producers, termFills, sweepStage>>

\* stopStream() up to the join: threadTermReq.set()
StopStreamBegin(op, arg) ==
    /\ threadTermReq' = TRUE
    /\ cpc' = "join"
    /\ cop' = op
    /\ carg' = arg
    /\ qret' = -1
    /\ UNCHANGED <<memberVars, streamInited, sourceExhausted, procFrames,
                   lastBuf, sinkVars, srcVars, qproc, prodVars, bufWrap,
                   wrapReset, pausedEarly, producers,
                   termFills, sweepStage>>

\* the rest of close(), stop() or open() once no sweep is running
FinishOp(op, ls) ==
    /\ state' = EndState(op, state)
    /\ source' = EndSource(op, state, source)
    /\ needsRewind' = IF op \in {"open_ok", "open_nosrc"} THEN FALSE
                      ELSE needsRewind
    /\ loopStart' = IF op = "open_ok" THEN ls ELSE loopStart
    /\ cpc' = "idle"
    /\ cop' = op
    /\ qret' = -1
    /\ UNCHANGED <<looped, thread, preemptPause, startOffset, flagVars,
                   procFrames, lastBuf, sinkVars, srcPos, carg, qproc,
                   prodVars, bufWrap, wrapReset, pausedEarly, producers,
                   termFills, sweepStage>>

\* a public call that returns without touching anything
ReturnOp(op) ==
    /\ cpc' = "idle"
    /\ cop' = op
    /\ qret' = -1
    /\ UNCHANGED <<memberVars, flagVars, procFrames, lastBuf, sinkVars,
                   srcVars, carg, qproc, prodVars, bufWrap, wrapReset,
                   pausedEarly, producers,
                   termFills, sweepStage>>

\* startStream() that leaves streamInited as the last sweep set it
startStream_keepInited(offset, sst, rewind, live) ==
    /\ sinkQueue' = ALClearQueue(sst, sinkQueue)
    /\ sinkState' = sst
    /\ sinkProc' = IF sst \in {"INITIAL", "STOPPED"} THEN 0 ELSE sinkProc
    /\ needsRewind' = rewind
    /\ preemptPause' = FALSE
    /\ sourceExhausted' = FALSE
    /\ threadTermReq' = FALSE
    /\ startOffset' = offset
    /\ procFrames' = offset * SampleRate
    /\ thread' = TRUE
    /\ producers' = live + 1
    /\ ppc' = "start"
    /\ pi' = 0
    /\ pstatus' = "NoError"
    /\ pbuf' = NullBuf
    /\ procBufs' = 0
    /\ state' = "Playing"
    /\ bufWrap' = [b \in Buffers |-> FALSE]
    /\ qret' = -1
    /\ wrapReset' = FALSE
    /\ pausedEarly' = FALSE
    /\ termFills' = 0
    /\ sweepStage' = 0
    /\ cpc' = "idle"
    /\ cop' = "play"
    /\ carg' = 0
    /\ UNCHANGED <<looped, source, lastBuf, srcVars, qproc, streamInited>>

\* startStream() without AL::Source::clearQueue
startStream_noClear(offset, sst, rewind, live) ==
    /\ sinkQueue' = sinkQueue
    /\ sinkState' = sst
    /\ sinkProc' = IF sst \in {"INITIAL", "STOPPED"} THEN 0 ELSE sinkProc
    /\ needsRewind' = rewind
    /\ preemptPause' = FALSE
    /\ streamInited' = FALSE
    /\ sourceExhausted' = FALSE
    /\ threadTermReq' = FALSE
    /\ startOffset' = offset
    /\ procFrames' = offset * SampleRate
    /\ thread' = TRUE
    /\ producers' = live + 1
    /\ ppc' = "start"
    /\ pi' = 0
    /\ pstatus' = "NoError"
    /\ pbuf' = NullBuf
    /\ procBufs' = 0
    /\ state' = "Playing"
    /\ bufWrap' = [b \in Buffers |-> FALSE]
    /\ qret' = -1
    /\ wrapReset' = FALSE
    /\ pausedEarly' = FALSE
    /\ termFills' = 0
    /\ sweepStage' = 0
    /\ cpc' = "idle"
    /\ cop' = "play"
    /\ carg' = 0
    /\ UNCHANGED <<looped, source, lastBuf, srcVars, qproc>>

\* startStream(offset), then state = Playing
startStream(offset, sst, rewind, live) ==
    /\ sinkQueue' = ALClearQueue(sst, sinkQueue)
    /\ sinkState' = sst
    /\ sinkProc' = IF sst \in {"INITIAL", "STOPPED"} THEN 0 ELSE sinkProc
    /\ needsRewind' = rewind
    /\ preemptPause' = FALSE
    /\ streamInited' = FALSE
    /\ sourceExhausted' = FALSE
    /\ threadTermReq' = FALSE
    /\ startOffset' = offset
    /\ procFrames' = offset * SampleRate
    /\ thread' = TRUE
    /\ producers' = live + 1
    /\ ppc' = "start"
    /\ pi' = 0
    /\ pstatus' = "NoError"
    /\ pbuf' = NullBuf
    /\ procBufs' = 0
    /\ state' = "Playing"
    /\ bufWrap' = [b \in Buffers |-> FALSE]
    /\ qret' = -1
    /\ wrapReset' = FALSE
    /\ pausedEarly' = FALSE
    /\ termFills' = 0
    /\ sweepStage' = 0
    /\ cpc' = "idle"
    /\ cop' = "play"
    /\ carg' = 0
    /\ UNCHANGED <<looped, source, lastBuf, srcVars, qproc>>

\* resumeStream() on the control thread, then state = Playing
resumeStreamCtl ==
    /\ preemptPause' = FALSE
    /\ sinkState' = IF preemptPause THEN sinkState ELSE ALPlayState(sinkQueue)
    /\ sinkProc' = IF preemptPause THEN sinkProc
                   ELSE ALPlayProc(sinkState, sinkQueue, sinkProc)
    /\ state' = "Playing"
    /\ cpc' = "idle"
    /\ cop' = "play"
    /\ qret' = -1
    /\ pausedEarly' = FALSE
    /\ UNCHANGED <<looped, source, thread, needsRewind, startOffset, flagVars,
                   procFrames, lastBuf, sinkQueue, srcVars, carg, qproc,
                   prodVars, bufWrap, wrapReset, termFills, sweepStage,
                   producers>>

\* the loop points a file opened by this stream can have
LoopStarts == IF looped THEN {0, SrcLen - 1} ELSE {0}

\* openSource() that closes the stream on NoFileError as on any other error
open_closeOnNoFile(kind, ls) ==
    /\ cpc = "idle"
    /\ IF checkStopped \/ state \in {"Playing", "Paused"}
       THEN StopStreamBegin(kind, 0)
       ELSE FinishOp(kind, ls)

\* open(filename): kind is what the filesystem and the opener come back with
open(kind, ls) ==
    /\ cpc = "idle"
    /\ IF kind = "open_nofile"
       THEN ReturnOp(kind)
       ELSE IF checkStopped \/ state \in {"Playing", "Paused"}
            THEN StopStreamBegin(kind, 0)
            ELSE FinishOp(kind, ls)

\* close() that runs the stop protocol in Closed too
close_stopAgain ==
    /\ cpc = "idle"
    /\ IF checkStopped \/ state \in {"Playing", "Paused", "Closed"}
       THEN StopStreamBegin("close", 0)
       ELSE FinishOp("close", loopStart)

\* close()
close ==
    /\ cpc = "idle"
    /\ IF checkStopped \/ state \in {"Playing", "Paused"}
       THEN StopStreamBegin("close", 0)
       ELSE FinishOp("close", loopStart)

\* stop()
stop ==
    /\ cpc = "idle"
    /\ IF checkStopped \/ state \in {"Playing", "Paused"}
       THEN StopStreamBegin("stop", 0)
       ELSE ReturnOp("stop")

\* play() without its test of source
play_noSourceTest(offset) ==
    /\ cpc = "idle"
    /\ IF checkStopped
       THEN StopStreamBegin("play", offset)
       ELSE CASE state = "Stopped" ->
                   startStream(offset, sinkState, needsRewind, producers)
              [] state = "Paused"  -> resumeStreamCtl
              [] OTHER             -> ReturnOp("play")

\* play() that starts a sweep from Playing as it does from Stopped
play_startFromPlaying(offset) ==
    /\ cpc = "idle"
    /\ IF source = "null"
       THEN ReturnOp("play")
       ELSE IF checkStopped
            THEN StopStreamBegin("play", offset)
            ELSE CASE state \in {"Stopped", "Playing"} ->
                        startStream(offset, sinkState, needsRewind, producers)
                   [] state = "Paused"  -> resumeStreamCtl
                   [] OTHER             -> ReturnOp("play")

\* play(offset)
play(offset) ==
    /\ cpc = "idle"
    /\ IF source = "null"
       THEN ReturnOp("play")
       ELSE IF checkStopped
            THEN StopStreamBegin("play", offset)
            ELSE CASE state = "Stopped" ->
                        startStream(offset, sinkState, needsRewind, producers)
                   [] state = "Paused"  -> resumeStreamCtl
                   [] OTHER             -> ReturnOp("play")

\* pause() up to pauseStream()
pause ==
    /\ cpc = "idle"
    /\ IF checkStopped
       THEN StopStreamBegin("pause", 0)
       ELSE IF state = "Playing"
            THEN /\ cpc' = "pauseStream"
                 /\ cop' = "pause"
                 /\ qret' = -1
                 /\ UNCHANGED <<memberVars, flagVars, procFrames, lastBuf,
                                sinkVars, srcVars, carg, qproc, prodVars,
                                bufWrap, wrapReset, pausedEarly, producers,
                   termFills, sweepStage>>
            ELSE ReturnOp("pause")

\* pauseStream(): SDL_LockMutex(pauseMut) and the getState() of its test
pauseStreamLock ==
    /\ cpc = "pauseStream"
    /\ cpc' = IF sinkState # "PLAYING" THEN "pauseStream_preempt"
              ELSE "pauseStream_pause"
    /\ UNCHANGED <<memberVars, flagVars, procFrames, lastBuf, sinkVars,
                   srcVars, cop, carg, qproc, prodVars, bufWrap,
                   qret, wrapReset, pausedEarly, producers,
                   termFills, sweepStage>>

\* the producer of the sweep has not yet made its first resumeStream() call
BeforeResume ==
    \/ ppc = "start"
    \/ pi = 0 /\ ppc \in {"p1_head", "p1_fill", "p1_queue", "p1_resume"}

\* pauseStream(): the branch taken, the unlock, then state = Paused
pauseStreamAct ==
    /\ cpc \in {"pauseStream_preempt", "pauseStream_pause"}
    /\ preemptPause' = IF cpc = "pauseStream_preempt" THEN TRUE
                       ELSE preemptPause
    /\ sinkState' = IF cpc = "pauseStream_pause" THEN ALPauseState(sinkState)
                    ELSE sinkState
    /\ state' = "Paused"
    /\ pausedEarly' = BeforeResume
    /\ cpc' = "idle"
    /\ UNCHANGED <<looped, source, thread, needsRewind, startOffset, flagVars,
                   procFrames, lastBuf, sinkQueue, sinkProc, srcVars, cop,
                   carg, qproc, prodVars, bufWrap, qret, wrapReset,
                   termFills, sweepStage, producers>>

\* queryState()
queryState ==
    /\ cpc = "idle"
    /\ IF checkStopped
       THEN StopStreamBegin("queryState", 0)
       ELSE ReturnOp("queryState")

\* stopStream() that goes on without waiting for the producer
WaitThread_noWait == TRUE

\* SDL_WaitThread(thread, 0) returns once streamData() has returned
WaitThread == thread => ppc = "done"

\* the producers left once stopStream() has joined the thread it holds
Joined(th, n) == IF th THEN n - 1 ELSE n

\* stopStream() from SDL_WaitThread on, and the rest of the operation
stopStreamJoin ==
    /\ cpc = "join"
    /\ WaitThread
    /\ IF cop = "play"
       THEN startStream(carg, ALStopState(sinkState), thread \/ needsRewind,
                        Joined(thread, producers))
       ELSE /\ thread' = FALSE
            /\ needsRewind' = IF cop \in {"open_ok", "open_nosrc"} THEN FALSE
                              ELSE (thread \/ needsRewind)
            /\ sinkState' = ALStopState(sinkState)
            /\ sinkProc' = 0
            /\ procFrames' = 0
            /\ ppc' = IF ppc = "done" THEN "none" ELSE ppc
            /\ state' = EndState(cop, "Stopped")
            /\ source' = EndSource(cop, "Stopped", source)
            /\ \E ls \in LoopStarts :
                 loopStart' = IF cop = "open_ok" THEN ls ELSE loopStart
            /\ cpc' = "idle"
            /\ carg' = 0
            /\ qret' = -1
            /\ pi' = 0
            /\ pstatus' = "NoError"
            /\ pbuf' = NullBuf
            /\ procBufs' = 0
            /\ pausedEarly' = FALSE
            /\ termFills' = 0
            /\ sweepStage' = 0
            /\ producers' = Joined(thread, producers)
            /\ UNCHANGED <<looped, preemptPause, startOffset, flagVars,
                           lastBuf, sinkQueue, srcPos, cop, qproc, bufWrap,
                           wrapReset>>

\* queryOffset(): the Closed / no-source return, else the read of procFrames
queryOffset ==
    /\ cpc = "idle"
    /\ IF state = "Closed" \/ source = "null"
       THEN ReturnOp("queryOffset")
       ELSE /\ qproc' = procFrames
            /\ cpc' = "queryOffset_sec"
            /\ cop' = "queryOffset"
            /\ UNCHANGED <<memberVars, flagVars, procFrames, lastBuf,
                           sinkVars, srcVars, carg, prodVars,
                           bufWrap, qret, wrapReset, pausedEarly, producers,
                   termFills, sweepStage>>

\* the value queryOffset() returns, in frames
QueryOffsetFrames(proc, sst, sproc) == proc + ALSecOffsetFrames(sst, sproc)

\* queryOffset(): getSecOffset() and the return
queryOffsetReturn ==
    /\ cpc = "queryOffset_sec"
    /\ qret' = IF state \in {"Playing", "Paused"}
               THEN QueryOffsetFrames(qproc, sinkState, sinkProc)
               ELSE qret
    /\ qproc' = 0
    /\ cpc' = "idle"
    /\ UNCHANGED <<memberVars, flagVars, procFrames, lastBuf, sinkVars,
                   srcVars, cop, carg, prodVars, bufWrap,
                   wrapReset, pausedEarly, producers,
                   termFills, sweepStage>>

\* ------------------------------------------------- the producer: streamData
\* the producer leaves streamData()
ProducerReturn == ppc' = "done"

\* source->seekToOffset(startOffset): the chunk the cursor lands on
SeekPos(offset) == (offset * SampleRate) \div BufFrames

\* entry: the first threadTermReq test and the seek
streamDataStart ==
    /\ ppc = "start"
    /\ IF threadTermReq
       THEN ProducerReturn /\ UNCHANGED <<srcPos, pi>>
       ELSE /\ srcPos' = SeekPos(startOffset)
            /\ pi' = 0
            /\ ppc' = "p1_head"
    /\ UNCHANGED <<memberVars, flagVars, procFrames, lastBuf, sinkVars,
                   loopStart, ctlVars, pstatus, pbuf, procBufs,
                   bufWrap, qret, wrapReset, pausedEarly, producers,
                   termFills, sweepStage>>

\* initial fill: head of the for loop
fillHead ==
    /\ ppc = "p1_head"
    /\ IF threadTermReq
       THEN ProducerReturn /\ UNCHANGED pbuf
       ELSE /\ pbuf' = pi + 1
            /\ ppc' = "p1_fill"
    /\ UNCHANGED <<memberVars, flagVars, procFrames, lastBuf, sinkVars,
                   srcVars, ctlVars, pi, pstatus, procBufs,
                   bufWrap, qret, wrapReset, pausedEarly, producers,
                   termFills, sweepStage>>

\* an initial fill that marks the source exhausted on Error, as the refill
\* loop does
fillInitial_errorExhausts(st) ==
    /\ ppc = "p1_fill"
    /\ st \in FillStatuses(looped, srcPos, procFrames)
    /\ pstatus' = st
    /\ srcPos' = FillPos(srcPos, loopStart, st)
    /\ bufWrap' = [bufWrap EXCEPT ![pbuf] = (st = "WrapAround")]
    /\ sourceExhausted' = IF st = "Error" THEN TRUE ELSE sourceExhausted
    /\ ppc' = IF st = "Error" THEN "done" ELSE "p1_queue"
    /\ termFills' = IF threadTermReq THEN termFills + 1 ELSE termFills
    /\ UNCHANGED <<memberVars, threadTermReq, streamInited, procFrames,
                   lastBuf, sinkVars, loopStart, ctlVars, pi, pbuf,
                   procBufs, qret, wrapReset, pausedEarly, producers,
                   sweepStage>>

\* initial fill: source->fillBuffer(buf) and the Error return
fillInitial(st) ==
    /\ ppc = "p1_fill"
    /\ st \in FillStatuses(looped, srcPos, procFrames)
    /\ pstatus' = st
    /\ srcPos' = FillPos(srcPos, loopStart, st)
    /\ bufWrap' = [bufWrap EXCEPT ![pbuf] = (st = "WrapAround")]
    /\ ppc' = IF st = "Error" THEN "done" ELSE "p1_queue"
    /\ termFills' = IF threadTermReq THEN termFills + 1 ELSE termFills
    /\ UNCHANGED <<memberVars, flagVars, procFrames, lastBuf, sinkVars,
                   loopStart, ctlVars, pi, pbuf, procBufs, qret,
                   wrapReset, pausedEarly, producers, sweepStage>>

\* initial fill: AL::Source::queueBuffer(alSrc, buf)
queueInitial ==
    /\ ppc = "p1_queue"
    /\ sinkQueue' = Append(sinkQueue, pbuf)
    /\ ppc' = IF pi = 0 THEN "p1_resume" ELSE "p1_term"
    /\ sweepStage' = IF sweepStage = 0 THEN 1 ELSE sweepStage
    /\ UNCHANGED <<memberVars, flagVars, procFrames, lastBuf, sinkState,
                   sinkProc, srcVars, ctlVars, pi, pstatus, pbuf,
                   procBufs, bufWrap, qret, wrapReset, pausedEarly, producers,
                   termFills>>

\* the control thread holds pauseMut
PauseMutHeld == cpc \in {"pauseStream_preempt", "pauseStream_pause"}

\* resumeStream(): what it does to preemptPause and the sink
resumeStream ==
    /\ preemptPause' = FALSE
    /\ sinkState' = IF preemptPause THEN sinkState ELSE ALPlayState(sinkQueue)
    /\ sinkProc' = IF preemptPause THEN sinkProc
                   ELSE ALPlayProc(sinkState, sinkQueue, sinkProc)

\* initial fill, first buffer: resumeStream()
resumeInitial ==
    /\ ppc = "p1_resume"
    /\ ~PauseMutHeld
    /\ resumeStream
    /\ ppc' = "p1_inited"
    /\ sweepStage' = 2
    /\ UNCHANGED <<looped, state, source, thread, needsRewind, startOffset,
                   flagVars, procFrames, lastBuf, sinkQueue, srcVars,
                   ctlVars, pi, pstatus, pbuf, procBufs, bufWrap,
                   qret, wrapReset, pausedEarly, producers, termFills>>

\* initial fill, first buffer: streamInited.set()
setStreamInited ==
    /\ ppc = "p1_inited"
    /\ streamInited' = TRUE
    /\ ppc' = "p1_term"
    /\ UNCHANGED <<memberVars, threadTermReq, sourceExhausted, procFrames,
                   lastBuf, sinkVars, srcVars, ctlVars, pi,
                   pstatus, pbuf, procBufs, bufWrap, qret, wrapReset,
                   pausedEarly, producers,
                   termFills, sweepStage>>

\* initial fill: the threadTermReq test after queueing, the EndOfStream
\* break and the loop increment; buf goes out of scope with the iteration
\* and i with the loop
fillTail ==
    /\ ppc = "p1_term"
    /\ IF threadTermReq
       THEN ProducerReturn /\ UNCHANGED <<sourceExhausted, pi, pstatus>>
       ELSE IF pstatus = "EndOfStream"
            THEN /\ sourceExhausted' = TRUE
                 /\ ppc' = "p2_sync"
                 /\ pi' = 0
                 /\ pstatus' = "NoError"
            ELSE /\ pi' = IF pi + 1 < STREAM_BUFS THEN pi + 1 ELSE 0
                 /\ ppc' = IF pi + 1 < STREAM_BUFS THEN "p1_head"
                           ELSE "p2_sync"
                 /\ pstatus' = "NoError"
                 /\ UNCHANGED sourceExhausted
    /\ pbuf' = NullBuf
    /\ UNCHANGED <<memberVars, threadTermReq, streamInited, procFrames,
                   lastBuf, sinkVars, srcVars, ctlVars,
                   procBufs, bufWrap, qret, wrapReset, pausedEarly, producers,
                   termFills, sweepStage>>

\* refill loop: passSecondarySync() and getProcBufferCount()
syncAndCount ==
    /\ ppc = "p2_sync"
    /\ procBufs' = ALProcCount(sinkState, sinkQueue, sinkProc)
    /\ ppc' = "p2_inner"
    /\ UNCHANGED <<memberVars, flagVars, procFrames, lastBuf, sinkVars,
                   srcVars, ctlVars, pi, pstatus, pbuf, bufWrap,
                   qret, wrapReset, pausedEarly, producers,
                   termFills, sweepStage>>

\* where the producer goes when it leaves the inner loop: the threadTermReq
\* test at the foot of the outer loop, then SDL_Delay
OuterTail == IF threadTermReq THEN "done" ELSE "p2_sync"

\* an inner loop head that does not test threadTermReq
innerHead_noTermTest ==
    /\ ppc = "p2_inner"
    /\ IF procBufs = 0
       THEN /\ ppc' = OuterTail
            /\ UNCHANGED procBufs
       ELSE /\ procBufs' = procBufs - 1
            /\ ppc' = "p2_unq"
    /\ UNCHANGED <<memberVars, flagVars, procFrames, lastBuf, sinkVars,
                   srcVars, ctlVars, pi, pstatus, pbuf, bufWrap,
                   qret, wrapReset, pausedEarly, producers, termFills,
                   sweepStage>>

\* refill loop: while (procBufs--) and the threadTermReq test at its head
innerHead ==
    /\ ppc = "p2_inner"
    /\ IF procBufs = 0
       THEN /\ ppc' = OuterTail
            /\ UNCHANGED procBufs
       ELSE /\ procBufs' = IF threadTermReq THEN 0 ELSE procBufs - 1
            /\ ppc' = IF threadTermReq THEN "done" ELSE "p2_unq"
    /\ UNCHANGED <<memberVars, flagVars, procFrames, lastBuf, sinkVars,
                   srcVars, ctlVars, pi, pstatus, pbuf, bufWrap,
                   qret, wrapReset, pausedEarly, producers,
                   termFills, sweepStage>>

\* refill loop: AL::Source::unqueueBuffer(alSrc); a null handle breaks
unqueue ==
    /\ ppc = "p2_unq"
    /\ IF ALProcCount(sinkState, sinkQueue, sinkProc) > 0
       THEN /\ pbuf' = Head(sinkQueue)
            /\ UNCHANGED procBufs
            /\ sinkQueue' = Tail(sinkQueue)
            /\ sinkProc' = IF sinkState \in {"PLAYING", "PAUSED"}
                           THEN sinkProc - 1 ELSE 0
            /\ ppc' = "p2_acct"
       ELSE /\ pbuf' = NullBuf
            /\ procBufs' = 0
            /\ ppc' = OuterTail
            /\ UNCHANGED <<sinkQueue, sinkProc>>
    /\ UNCHANGED <<memberVars, flagVars, procFrames, lastBuf, sinkState,
                   srcVars, ctlVars, pi, pstatus,
                   bufWrap, qret, wrapReset, pausedEarly, producers,
                   termFills, sweepStage>>

\* refill loop: the lastBuf test, the frame accounting, and the
\* sourceExhausted test that skips the refill
account ==
    /\ ppc = "p2_acct"
    /\ IF pbuf = lastBuf
       THEN /\ procFrames' = LoopStartFrames(loopStart)
            /\ lastBuf' = NullBuf
            /\ wrapReset' = TRUE
            /\ qret' = -1
       ELSE /\ procFrames' = procFrames
                             + BufFrameCount(BufBits, BufSize, BufChan)
            /\ UNCHANGED <<lastBuf, wrapReset, qret>>
    /\ ppc' = IF sourceExhausted THEN "p2_inner" ELSE "p2_fill"
    /\ pbuf' = IF sourceExhausted THEN NullBuf ELSE pbuf
    /\ UNCHANGED <<memberVars, flagVars, sinkVars, srcVars, ctlVars, pi,
                   pstatus, procBufs, bufWrap, pausedEarly, producers,
                   termFills, sweepStage>>

\* refill loop: source->fillBuffer(buf); Error sets sourceExhausted, returns
refill(st) ==
    /\ ppc = "p2_fill"
    /\ st \in FillStatuses(looped, srcPos, procFrames)
    /\ pstatus' = st
    /\ srcPos' = FillPos(srcPos, loopStart, st)
    /\ bufWrap' = [bufWrap EXCEPT ![pbuf] = (st = "WrapAround")]
    /\ sourceExhausted' = IF st = "Error" THEN TRUE ELSE sourceExhausted
    /\ ppc' = IF st = "Error" THEN "done" ELSE "p2_queue"
    /\ pbuf' = IF st = "Error" THEN NullBuf ELSE pbuf
    /\ procBufs' = IF st = "Error" THEN 0 ELSE procBufs
    /\ termFills' = IF threadTermReq THEN termFills + 1 ELSE termFills
    /\ UNCHANGED <<memberVars, threadTermReq, streamInited, procFrames,
                   lastBuf, sinkVars, loopStart, ctlVars, pi,
                   qret, wrapReset, pausedEarly, producers, sweepStage>>

\* refill loop: AL::Source::queueBuffer(alSrc, buf)
requeue ==
    /\ ppc = "p2_queue"
    /\ sinkQueue' = Append(sinkQueue, pbuf)
    /\ ppc' = "p2_under"
    /\ UNCHANGED <<memberVars, flagVars, procFrames, lastBuf, sinkState,
                   sinkProc, srcVars, ctlVars, pi, pstatus, pbuf,
                   procBufs, bufWrap, qret, wrapReset, pausedEarly, producers,
                   termFills, sweepStage>>

\* refill loop: lastBuf = buf on WrapAround
MarkLastBuf(st, buf, last) == IF st = "WrapAround" THEN buf ELSE last

\* refill loop: sourceExhausted.set() on EndOfStream
MarkExhausted(st, exh) == IF st = "EndOfStream" THEN TRUE ELSE exh

\* a refill loop without the restart of a stopped sink
underrunTest_noRestart ==
    /\ ppc = "p2_under"
    /\ lastBuf' = MarkLastBuf(pstatus, pbuf, lastBuf)
    /\ sourceExhausted' = MarkExhausted(pstatus, sourceExhausted)
    /\ ppc' = "p2_inner"
    /\ pbuf' = NullBuf
    /\ pstatus' = "NoError"
    /\ UNCHANGED <<memberVars, threadTermReq, streamInited, procFrames,
                   sinkVars, srcVars, ctlVars, pi, procBufs,
                   bufWrap, qret, wrapReset, pausedEarly, producers,
                   termFills, sweepStage>>

\* refill loop: the getState() == AL_STOPPED test; when the sink is not
\* stopped, the WrapAround and EndOfStream marks that close the iteration.
\* At the foot of the iteration buf goes out of scope, and status is not
\* read again before the next fillBuffer() assigns it
underrunTest ==
    /\ ppc = "p2_under"
    /\ IF sinkState = "STOPPED"
       THEN /\ ppc' = "p2_play"
            /\ UNCHANGED <<lastBuf, sourceExhausted, pbuf, pstatus>>
       ELSE /\ lastBuf' = MarkLastBuf(pstatus, pbuf, lastBuf)
            /\ sourceExhausted' = MarkExhausted(pstatus, sourceExhausted)
            /\ pbuf' = NullBuf
            /\ pstatus' = "NoError"
            /\ ppc' = "p2_inner"
    /\ UNCHANGED <<memberVars, threadTermReq, streamInited, procFrames,
                   sinkVars, srcVars, ctlVars, pi,
                   procBufs, bufWrap, qret, wrapReset, pausedEarly, producers,
                   termFills, sweepStage>>

\* refill loop: AL::Source::play(alSrc) of the underrun recovery, then the
\* WrapAround and EndOfStream marks
underrunPlay ==
    /\ ppc = "p2_play"
    /\ sinkState' = ALPlayState(sinkQueue)
    /\ sinkProc' = ALPlayProc(sinkState, sinkQueue, sinkProc)
    /\ lastBuf' = MarkLastBuf(pstatus, pbuf, lastBuf)
    /\ sourceExhausted' = MarkExhausted(pstatus, sourceExhausted)
    /\ pbuf' = NullBuf
    /\ pstatus' = "NoError"
    /\ ppc' = "p2_inner"
    /\ UNCHANGED <<memberVars, threadTermReq, streamInited, procFrames,
                   sinkQueue, srcVars, ctlVars, pi,
                   procBufs, bufWrap, qret, wrapReset, pausedEarly, producers,
                   termFills, sweepStage>>

\* ------------------------------------------------------- the mixer at work
\* the OpenAL source finishes playing one queued buffer; after the last one
\* it stops by itself
sinkConsume ==
    /\ sinkState = "PLAYING"
    /\ sinkProc < Len(sinkQueue)
    /\ sinkState' = IF sinkProc + 1 = Len(sinkQueue) THEN "STOPPED"
                    ELSE "PLAYING"
    /\ sinkProc' = IF sinkProc + 1 = Len(sinkQueue) THEN 0 ELSE sinkProc + 1
    /\ UNCHANGED <<memberVars, flagVars, procFrames, lastBuf, sinkQueue,
                   srcVars, ctlVars, prodVars, bufWrap, qret,
                   wrapReset, pausedEarly, producers,
                   termFills, sweepStage>>

\* ------------------------------------------------------------ the program
Control ==
    \/ \E kind \in OpenKinds : \E ls \in LoopStarts : open(kind, ls)
    \/ close
    \/ stop
    \/ \E offset \in Offsets : play(offset)
    \/ pause
    \/ pauseStreamLock
    \/ pauseStreamAct
    \/ queryState
    \/ queryOffset
    \/ queryOffsetReturn
    \/ stopStreamJoin

Producer ==
    \/ streamDataStart
    \/ fillHead
    \/ \E st \in Statuses : fillInitial(st)
    \/ queueInitial
    \/ resumeInitial
    \/ setStreamInited
    \/ fillTail
    \/ syncAndCount
    \/ innerHead
    \/ unqueue
    \/ account
    \/ \E st \in Statuses : refill(st)
    \/ requeue
    \/ underrunTest
    \/ underrunPlay

Next == Control \/ Producer \/ sinkConsume

Spec == Init /\ [][Next]_vars

\* the control thread finishes the call it is in; its caller keeps polling
\* queryState(); the producer and the mixer are scheduled fairly
ControlStep ==
    pauseStreamLock \/ pauseStreamAct \/ queryOffsetReturn \/ stopStreamJoin

\* a stream constructed with LoopMode NotLooped: the one that can end
InitNotLooped == Init /\ ~looped

FairSpec ==
    /\ InitNotLooped
    /\ [][Next]_vars
    /\ WF_vars(ControlStep)
    /\ SF_vars(queryState)
    /\ WF_vars(Producer)
    /\ WF_vars(sinkConsume)

\* every run in which the producer thread is scheduled fairly and a join
\* whose producer has returned completes
CancelSpec ==
    Init /\ [][Next]_vars /\ WF_vars(Producer) /\ WF_vars(stopStreamJoin)

\* ================================================================ claims
\* the control thread is back in its caller after a call of op
Returned(op) == cpc = "idle" /\ cop = op

\* C1: when pause() comes before the producer's first resumeStream() of a
\* sweep, the sink is not PLAYING for as long as that pause is in force
\* (until the next play(), stop(), close() or open())
EarlyPauseKeepsSinkSilent == pausedEarly => sinkState # "PLAYING"

\* C2: once stop() or close() has returned, the thread handle is absent and
\* no producer is running or waiting to be joined
NoProducerAfterStop ==
    (Returned("stop") \/ Returned("close")) => (~thread /\ ppc = "none")

\* stop() has returned after stopping a sweep whose producer had queued
\* buffers
StopJoinedProducer ==
    /\ Returned("stop")
    /\ state = "Stopped"
    /\ needsRewind
    /\ sinkState = "STOPPED"
    /\ Len(sinkQueue) > 0

NoFileLeavesStream ==
    [][(\E ls \in LoopStarts : open("open_nofile", ls)) =>
          /\ cpc' = "idle"
          /\ UNCHANGED <<state, source, thread, preemptPause, flagVars,
                         needsRewind, startOffset, procFrames, lastBuf,
                         sinkVars, srcVars, prodVars>>]_vars

\* open() has failed with NoFileError over a sweep whose producer still runs
NoFileWhilePlaying ==
    /\ Returned("open_nofile")
    /\ state = "Playing"
    /\ thread
    /\ ppc \notin {"none", "done"}
    /\ sinkState = "PLAYING"

\* C5: a Closed stream has no source
ClosedHasNoSource == state = "Closed" => source = "null"

\* C6: the state is one of the four; Playing is entered only by play(), from
\* Stopped or Paused with a source present; Paused is entered only by
\* pause(), from Playing; Closed is left only for Stopped
LegalTransitions ==
    [][/\ state' \in States
       /\ (state' = "Playing" /\ state # "Playing") =>
              /\ cpc = "idle"
              /\ cop' = "play"
              /\ state \in {"Stopped", "Paused"}
              /\ source = "valid"
       /\ (state' = "Paused" /\ state # "Paused") =>
              /\ cop' = "pause"
              /\ state = "Playing"
       /\ state = "Closed" => state' \in {"Closed", "Stopped"}]_vars

\* pause() has returned with the stream Paused and its producer alive
PausedByPause ==
    /\ Returned("pause")
    /\ state = "Paused"
    /\ source = "valid"
    /\ thread

\* C7: a queryState() that finds the state Playing, the stream inited, the
\* source exhausted and the sink not PLAYING runs the stop protocol and
\* returns Stopped with the producer joined; and once fillBuffer has
\* returned EndOfStream in a sweep whose state is Playing, a caller polling
\* queryState() eventually finds the sweep finalized: the state has left
\* Playing, or play() has begun a new sweep after checkStopped() ended it
EndOfStreamFinalizes ==
    /\ [][(/\ queryState
           /\ state = "Playing"
           /\ streamInited
           /\ sourceExhausted
           /\ sinkState # "PLAYING") =>
             (cpc' = "join" /\ threadTermReq')]_vars
    /\ [][(cpc = "join" /\ cop = "queryState" /\ cpc' = "idle") =>
             (state' = "Stopped" /\ ~thread' /\ ppc' = "none")]_vars
    /\ (state = "Playing" /\ (sourceExhausted \/ pstatus = "EndOfStream"))
           ~> (state # "Playing"
               \/ (~sourceExhausted /\ pstatus # "EndOfStream"))

\* queryState() is in the stop protocol of a sweep that reached EndOfStream
QueryStateStopsAtEnd ==
    /\ cpc = "join"
    /\ cop = "queryState"
    /\ state = "Playing"
    /\ ~looped
    /\ sourceExhausted
    /\ sinkState = "STOPPED"

\* C8: in the refill loop, when the producer finds the sink STOPPED after
\* it has refilled and queued a buffer, its next step is sink.play(), that
\* play leaves the sink PLAYING, and no refill iteration ends with the sink
\* STOPPED
UnderrunRecovery ==
    [][/\ (ppc = "p2_under" /\ ppc' # ppc /\ sinkState = "STOPPED") =>
              ppc' = "p2_play"
       /\ (ppc = "p2_play" /\ ppc' # ppc) => sinkState' = "PLAYING"
       /\ (ppc \in {"p2_under", "p2_play"} /\ ppc' = "p2_inner") =>
              sinkState' # "STOPPED"]_vars

\* the sink ran dry in a sweep that is Playing with data left, and the
\* producer, having queued a refilled buffer, is about to restart it
UnderrunSeen ==
    /\ ppc = "p2_play"
    /\ state = "Playing"
    /\ streamInited
    /\ ~sourceExhausted
    /\ pstatus = "NoError"
    /\ sinkState = "STOPPED"

\* C9: whenever a buffer whose fill returned WrapAround is unqueued, the
\* accounting sets procFrames to loopStartFrames()
WrapResetsProcFrames ==
    [][(ppc = "p2_acct" /\ ppc' # "p2_acct" /\ bufWrap[pbuf]) =>
          procFrames' = LoopStartFrames(loopStart)]_vars

\* C10: during a sweep and before any reset of procFrames, every value
\* queryOffset() returns while the sink is playing is at least the play
\* offset, in frames, and at least the value the call before it returned
QueryOffsetMonotone ==
    [][(/\ cpc = "queryOffset_sec"
        /\ cpc' = "idle"
        /\ state \in {"Playing", "Paused"}
        /\ sinkState = "PLAYING"
        /\ ~wrapReset) =>
          /\ qret' >= startOffset * SampleRate
          /\ qret # -1 => qret' >= qret]_vars

\* C11: at most one producer thread exists at any time: the thread handle
\* is present exactly when one producer has been created and not yet
\* joined, and startStream() never creates a second one beside it
AtMostOneProducer ==
    /\ producers <= 1
    /\ thread <=> producers = 1
    /\ ppc # "none" => thread

\* the producer of a later sweep runs after an earlier one was joined
SecondSweepProducer ==
    /\ producers = 1
    /\ needsRewind
    /\ state = "Playing"
    /\ ppc \notin {"none", "start", "done"}

\* C12: close() always returns with state = Closed, and a close() called
\* right after a close() has returned returns at once and changes neither
\* the state, the source, the thread, the flags, the sink, the counters nor
\* the producer
CloseIdempotent ==
    /\ [](Returned("close") => state = "Closed")
    /\ [][(close /\ Returned("close")) =>
            /\ cpc' = "idle"
            /\ UNCHANGED <<memberVars, flagVars, procFrames, lastBuf,
                           sinkVars, srcVars, prodVars, producers>>]_vars

\* close() has returned after closing a stream whose sweep had played; a
\* second close() is a step from this state to itself
ClosedAfterSweep ==
    /\ Returned("close")
    /\ state = "Closed"
    /\ source = "dangling"
    /\ needsRewind
    /\ sinkState = "STOPPED"
    /\ ENABLED close

\* C13: every step of the control thread that stops the sink or empties
\* its queue is taken while no producer runs; whenever the control thread
\* is back in its caller with the stream Stopped or Closed the sink is not
\* PLAYING and no producer exists; and from there the sink changes only by
\* the next play()
StopOrdering ==
    /\ [][(/\ \/ sinkState \in {"PLAYING", "PAUSED"} /\ sinkState' = "STOPPED"
              \/ sinkQueue # <<>> /\ sinkQueue' = <<>>
           /\ Control) =>
             ppc \in {"none", "done"}]_vars
    /\ []((cpc = "idle" /\ state \in {"Stopped", "Closed"}) =>
             (sinkState # "PLAYING" /\ ppc = "none"))
    /\ [][(/\ cpc = "idle"
           /\ state \in {"Stopped", "Closed"}
           /\ sinkVars' # sinkVars) =>
             (cop' = "play" /\ state' = "Playing")]_vars

\* stop() has returned over a sweep whose producer had filled the whole
\* ring
StoppedFullRing ==
    /\ Returned("stop")
    /\ state = "Stopped"
    /\ sinkState = "STOPPED"
    /\ Len(sinkQueue) = STREAM_BUFS
    /\ ~thread

\* C14: queryState(), play() and pause() enter the stop protocol only from
\* Playing with streamInited set, sourceExhausted set and the sink not
\* PLAYING; every step that takes state from Playing to Stopped is the
\* return of stop(), open() or of such a stop protocol; and a public call
\* other than stop(), close() and open() made while sourceExhausted is
\* unset leaves state = Playing, whatever the sink state
UnderrunIsNotTheEnd ==
    /\ [][(/\ cpc = "idle"
           /\ cpc' = "join"
           /\ cop' \in {"queryState", "play", "pause"}) =>
             /\ state = "Playing"
             /\ streamInited
             /\ sourceExhausted
             /\ sinkState # "PLAYING"]_vars
    /\ [][(state = "Playing" /\ state' = "Stopped") =>
             /\ cpc = "join"
             /\ cop \in {"stop", "open_ok", "open_nosrc", "queryState",
                         "pause"}]_vars
    /\ [][(/\ cpc = "idle"
           /\ state = "Playing"
           /\ ~sourceExhausted
           /\ cpc' = "idle"
           /\ cop' \in {"queryState", "play"}) =>
             state' = "Playing"]_vars

\* queryState() has returned Playing over an underrun: the sink is STOPPED,
\* the stream inited, the source not exhausted
QueryStateOverUnderrun ==
    /\ Returned("queryState")
    /\ state = "Playing"
    /\ streamInited
    /\ ~sourceExhausted
    /\ sinkState = "STOPPED"
    /\ ppc \notin {"none", "done"}

\* the producer has left the initial fill on an Error of fillBuffer (an
\* Error in the refill loop sets sourceExhausted) and the stream is Playing
Phase1Error ==
    /\ ppc = "done"
    /\ pstatus = "Error"
    /\ ~sourceExhausted
    /\ state = "Playing"

\* the initial fill returns on Error and leaves sourceExhausted unset, and
\* a queryState() made after it returns Playing without a stop protocol
Phase1ErrorNeverStops ==
    /\ [][(ppc = "p1_fill" /\ ppc' # ppc /\ pstatus' = "Error") =>
             (ppc' = "done" /\ ~sourceExhausted')]_vars
    /\ [][(Phase1Error /\ queryState) =>
             (cpc' = "idle" /\ state' = "Playing")]_vars

CooperativeCancellation ==
    /\ [](termFills <= 1)
    /\ [](cpc = "join" => threadTermReq)
    /\ [][(cpc = "join" /\ cpc' = "idle" /\ thread) => ppc = "done"]_vars
    /\ (cpc = "join") ~> (cpc = "idle")

\* the stop protocol waits for a producer that has made a fillBuffer call
\* after the request and is still in the refill loop
JoinWaitsForFill ==
    /\ cpc = "join"
    /\ threadTermReq
    /\ termFills = 1
    /\ ppc \in {"p2_queue", "p2_under", "p2_play"}

\* C17: whenever state is Playing or Paused and streamInited is set, the
\* producer of the current sweep has queued its first buffer and has
\* completed its initial resumeStream()
StreamInitedMeansQueued ==
    (state \in {"Playing", "Paused"} /\ streamInited) => sweepStage = 2

\* the producer of a sweep that follows a joined one has just set
\* streamInited
SecondSweepInited ==
    /\ state = "Playing"
    /\ streamInited
    /\ needsRewind
    /\ sweepStage = 2
    /\ ppc = "p1_term"
    /\ pi = 0

\* C18: while a pause() that came after the sweep's first resumeStream()
\* is in force (it has returned with state = Paused and no other call has
\* been made since that changes the state), the sink is not PLAYING
PauseNeverOverridden ==
    (state = "Paused" /\ cpc = "idle" /\ ~pausedEarly) =>
        sinkState # "PLAYING"

\* C19: whenever the accounting of an unqueued buffer resets procFrames
\* (the buffer is lastBuf), the most recent fill of that buffer in the
\* current sweep returned WrapAround
WrapMarkerStaysInSweep ==
    [][(ppc = "p2_acct" /\ ppc' # "p2_acct" /\ pbuf = lastBuf) =>
          bufWrap[pbuf]]_vars

\* C20: the sink queue holds only handles of the ring, each at most once,
\* and so never more than STREAM_BUFS of them; and the buffer the producer
\* is about to fill is not in the sink queue
RingIntegrity ==
    /\ Len(sinkQueue) <= STREAM_BUFS
    /\ \A i \in 1..Len(sinkQueue) : sinkQueue[i] \in Buffers
    /\ \A i, j \in 1..Len(sinkQueue) :
           i # j => sinkQueue[i] # sinkQueue[j]
    /\ ppc \in {"p1_fill", "p2_fill"} =>
           \A i \in 1..Len(sinkQueue) : sinkQueue[i] # pbuf

\* the producer of a sweep that follows a joined one is about to refill a
\* buffer it has unqueued, the rest of the ring still queued
RefillInLaterSweep ==
    /\ needsRewind
    /\ ppc = "p2_fill"
    /\ pbuf \in Buffers
    /\ Len(sinkQueue) = STREAM_BUFS - 1

====
